---- MODULE Spec2Model ----
(***************************************************************************)
(* A model of zcalendar: the component value sets (component.go,           *)
(* weekday_component.go) and the rollover loop of Expression.Next          *)
(* (expression source, lines 329-480).                                     *)
(*                                                                         *)
(* An instant is a record [day, sec]: day counts days since 1970-01-01     *)
(* (UTC) and sec is the second of that day, so that every number stays     *)
(* well inside 32 bits over the whole range of years 1970..2200.           *)
(***************************************************************************)
EXTENDS Integers, Sequences, FiniteSets, TLC

VARIABLES
    exp, d,                                    \* receiver and argument of Expression.Next
    year, month, day, hour, minute, second,    \* the working values of the loop
    diff, ok, n,                               \* the `diff` of the loop and the named results
    pc, restarts,                              \* position in Next, number of `continue`s taken
    pass,                                      \* the working values at the top of the last two passes
    prior,                                     \* the call of Next made before this one, with its results
    cs, max, current, values, res, cpc,        \* components under test, arguments and results
    sched, idx, candidates, returned,          \* receiver and locals of Schedule.Next, returns of e.Next
    sn, sok, spc,                              \* its named results and its position
    given, raw,                                \* the chunks of a text and the text itself
    before, out, err,                          \* a receiver before a call, the result and the error
    text, out2, err2, text2,                   \* its rendering, parsed and rendered once more
    tpc                                        \* position in the calls on texts

nextVars == <<exp, d, year, month, day, hour, minute, second, diff, ok, n, pc, restarts, pass, prior>>
compVars == <<cs, max, current, values, res, cpc>>
schedVars == <<sched, idx, candidates, returned, sn, sok, spc>>
textVars == <<given, raw, before, out, err, text, out2, err2, text2, tpc>>
vars == <<exp, d, year, month, day, hour, minute, second, diff, ok, n, pc, restarts, pass, prior,
          cs, max, current, values, res, cpc,
          sched, idx, candidates, returned, sn, sok, spc,
          given, raw, before, out, err, text, out2, err2, text2, tpc>>

----------------------------------------------------------------------------
(* Program constants.                                                      *)

MaxYears == 2199
MinYears == 1970

----------------------------------------------------------------------------
(* Bounds of the model.                                                    *)

MaxRestarts == 1200    \* cap of the restart counter; no run of the model reaches it
RestartCeiling == 999  \* the largest count that still reads as "a few hundred" passes
MaxFrom == 2           \* components of the calls of Values and Next on their own
MaxTo == 2
MaxRepeat == 2
MaxLen == 2            \* length of their lists
MaxMax == 2            \* their arguments
MaxCurrent == 3
MaxMembers == 2        \* expressions of a schedule
MaxElements == 3       \* comma-separated elements of a list text
MaxChunks == 5         \* chunks of a text whose chunks are in any order
MaxLines == 2          \* lines of the text of a schedule

----------------------------------------------------------------------------
(* The proleptic Gregorian calendar, as Go's time package computes it.     *)

SecondsPerDay == 86400

\* time.Date accepts a month outside 1..12 and carries it into the year.
NormYear(y, m) == y + ((m - 1) \div 12)
NormMonth(m) == ((m - 1) % 12) + 1

\* Days from 1970-01-01 to the civil date y-m-dd, m in 1..12, dd any integer
\* (time.Date accepts a day outside the month and carries it).
DaysFromCivil(y, m, dd) ==
    CHOOSE days \in {
        LET era == yy \div 400
            yoe == yy - era * 400
            doy == ((153 * mp + 2) \div 5) + dd - 1
            doe == yoe * 365 + (yoe \div 4) - (yoe \div 100) + doy
        IN  era * 146097 + doe - 719468 :
            yy \in {IF m <= 2 THEN y - 1 ELSE y},
            mp \in {IF m > 2 THEN m - 3 ELSE m + 9}} : TRUE

\* The civil date of a day number.
CivilFromDays(z0) ==
    CHOOSE civil \in {
        LET era == z \div 146097
            doe == z - era * 146097
            yoe == (doe - (doe \div 1460) + (doe \div 36524) - (doe \div 146096)) \div 365
            doy == doe - (365 * yoe + (yoe \div 4) - (yoe \div 100))
            mp  == (5 * doy + 2) \div 153
            dd  == doy - ((153 * mp + 2) \div 5) + 1
            m   == IF mp < 10 THEN mp + 3 ELSE mp - 9
            y   == yoe + era * 400
        IN  [year |-> IF m <= 2 THEN y + 1 ELSE y, month |-> m, day |-> dd] :
            z \in {z0 + 719468}} : TRUE

\* time.Weekday of a day number: Sunday = 0 .. Saturday = 6 (1970-01-01 was a Thursday).
GoWeekday(z) == (z + 4) % 7

\* The day number of time.Date(y, m, dd, ...) after normalisation of the month.
DateDays(y, m, dd) == DaysFromCivil(NormYear(y, m), NormMonth(m), dd)

\* daysInMonth := time.Date(year, time.Month(month+1), 0, 0, 0, 0, 0, time.UTC).Day()
daysInMonth(y, m) == CivilFromDays(DateDays(y, m + 1, 0)).day

----------------------------------------------------------------------------
(* Instants and time zones.                                                *)

Instant(z, s) == [day |-> z, sec |-> s]

\* t plus k seconds, k possibly negative.
AddSeconds(t, k) ==
    CHOOSE sum \in {Instant(t.day + (total \div SecondsPerDay), total % SecondsPerDay) :
                        total \in {t.sec + k}} : TRUE

Before(a, b) == a.day < b.day \/ (a.day = b.day /\ a.sec < b.sec)

\* The zero time.Time, January 1 of year 1, returned with ok = false.
ZeroTime == Instant(DaysFromCivil(1, 1, 1), 0)

\* Day of the month of the k-th Sunday and of the last Sunday of month m of year y.
NthSunday(y, m, k) == 1 + ((7 - GoWeekday(DaysFromCivil(y, m, 1))) % 7) + 7 * (k - 1)
LastSunday(y, m) ==
    CHOOSE dd \in {CivilFromDays(last).day - GoWeekday(last) :
                       last \in {DaysFromCivil(y, m + 1, 0)}} : TRUE

\* The locations of the model.  UTC has no transition.  Europe/Paris (rule in
\* force since 1996): UTC+1, and UTC+2 from the last Sunday of March 01:00 UTC
\* to the last Sunday of October 01:00 UTC.  America/New_York (rule in force
\* since 2007): UTC-5, and UTC-4 from the second Sunday of March 07:00 UTC to
\* the first Sunday of November 06:00 UTC.
Locations == {"UTC", "Europe/Paris", "America/New_York"}

StdOffset(loc) ==
    CASE loc = "UTC" -> 0
      [] loc = "Europe/Paris" -> 3600
      [] loc = "America/New_York" -> 0 - 18000

DstOffset(loc) ==
    CASE loc = "UTC" -> 0
      [] loc = "Europe/Paris" -> 7200
      [] loc = "America/New_York" -> 0 - 14400

DstStart(loc, y) ==
    CASE loc = "Europe/Paris" -> Instant(DaysFromCivil(y, 3, LastSunday(y, 3)), 3600)
      [] loc = "America/New_York" -> Instant(DaysFromCivil(y, 3, NthSunday(y, 3, 2)), 7 * 3600)

DstEnd(loc, y) ==
    CASE loc = "Europe/Paris" -> Instant(DaysFromCivil(y, 10, LastSunday(y, 10)), 3600)
      [] loc = "America/New_York" -> Instant(DaysFromCivil(y, 11, NthSunday(y, 11, 1)), 6 * 3600)

\* The offset from UTC in force in loc at the instant t.
OffsetAt(loc, t) ==
    IF loc = "UTC" THEN 0
    ELSE CHOOSE offset \in {
             IF ~Before(t, DstStart(loc, y)) /\ Before(t, DstEnd(loc, y))
             THEN DstOffset(loc) ELSE StdOffset(loc) :
                 y \in {CivilFromDays(t.day).year}} : TRUE

\* The first year from which the rule of OffsetAt is the rule of the location.
RuleSince(loc) ==
    CASE loc = "UTC" -> MinYears
      [] loc = "Europe/Paris" -> 1996
      [] loc = "America/New_York" -> 2007

\* The date and clock of the instant l read as UTC.
Reading(l) ==
    CHOOSE reading \in {
        [year |-> c.year, month |-> c.month, day |-> c.day,
         hour |-> l.sec \div 3600, minute |-> (l.sec % 3600) \div 60,
         second |-> l.sec % 60] : c \in {CivilFromDays(l.day)}} : TRUE

\* t.In(loc): the wall clock reading of the instant t in loc.
In(t, loc) ==
    CHOOSE reading \in {Reading(l) : l \in {AddSeconds(t, OffsetAt(loc, t))}} : TRUE

\* The wall clock reading y-m-dd h:mi:s as a day number and a second of the day,
\* with the carries time.Date performs on values outside their range.
WallClock(y, m, dd, h, mi, s) ==
    AddSeconds(Instant(DateDays(y, m, dd), 0), h * 3600 + mi * 60 + s)

\* The instant time.Date gives for the wall clock reading l in loc.  It looks
\* the offset up at l taken as if it were UTC, and when the instant this gives
\* lies outside the period of that offset, it looks the offset up again at that
\* instant.  A reading that exists twice (the hour repeated when the clocks go
\* back) or not at all (the hour skipped when they go forward) so gets "a time
\* that is correct in one of the two zones involved in the transition".
Locate(l, loc) ==
    CHOOSE t \in {AddSeconds(l, 0 - again) :
                      again \in {OffsetAt(loc, guess) :
                                     guess \in {AddSeconds(l, 0 - OffsetAt(loc, l))}}} : TRUE

\* time.Date(y, m, dd, h, mi, s, 0, loc)
Date(y, m, dd, h, mi, s, loc) == Locate(WallClock(y, m, dd, h, mi, s), loc)

----------------------------------------------------------------------------
(* component.go: a component is a record [From, To, Repeat]; To = 0 and    *)
(* Repeat = 0 stand for "unset", as in the Go struct.                      *)

Component(f, t, r) == [From |-> f, To |-> t, Repeat |-> r]

\* What one turn of the inner `for` loop of Values adds to `seen` for the
\* component c: a single value (To = 0) as it is, a range up to max.
Once(c, mx) ==
    IF c.To = 0 THEN {c.From} ELSE {v \in c.From..c.To : v <= mx}

\* The component c after k times `c.From += c.Repeat` (and c.To with it when set).
Shift(c, k) ==
    [From   |-> c.From + k * c.Repeat,
     To     |-> IF c.To # 0 THEN c.To + k * c.Repeat ELSE c.To,
     Repeat |-> c.Repeat]

\* The number of times the inner loop shifts c and goes round again: it leaves
\* at once when Repeat = 0, and otherwise as soon as the shifted From is above max.
Turns(c, mx) ==
    IF c.Repeat = 0 \/ c.From + c.Repeat > mx THEN 0
    ELSE (mx - c.From) \div c.Repeat

\* The values one component adds to `seen`: the first turn and every further one.
Expand(c, mx) == UNION {Once(Shift(c, k), mx) : k \in 0..Turns(c, mx)}

\* The keys of the map `seen` after the outer loop of Values.
Seen(list, mx) == UNION {Expand(list[i], mx) : i \in DOMAIN list}

Least(s) == CHOOSE v \in s : \A u \in s : v <= u

Greatest(s) == CHOOSE v \in s : \A u \in s : v >= u

\* The elements of the set s of integers that lie in lo..hi, in ascending order.
RECURSIVE Between(_, _, _)
Between(s, lo, hi) ==
    IF lo > hi THEN <<>>
    ELSE IF lo = hi THEN (IF lo \in s THEN <<lo>> ELSE <<>>)
    ELSE CHOOSE sorted \in {Between(s, lo, mid) \o Between(s, mid + 1, hi) :
                                mid \in {(lo + hi) \div 2}} : TRUE

\* sort.Ints: the elements of the finite set s of integers in ascending order.
SortInts(s) ==
    IF s = {} THEN <<>>
    ELSE CHOOSE sorted \in {Between(s, lo, hi) : lo \in {Least(s)}, hi \in {Greatest(s)}} : TRUE

\* components.Values(max): the keys of `seen`, collected once and then sorted.
Values(list, mx) == CHOOSE vals \in {SortInts(seen) : seen \in {Seen(list, mx)}} : TRUE

\* for i = 0; i < len(values) && values[i] < current; i++ {}
\* The index (from 0) at which the scan stops: the first whose value is not
\* below cur, or len(values) when there is none.
FirstAtLeast(vals, cur) ==
    IF \E j \in 1..Len(vals) : vals[j] >= cur
    THEN (CHOOSE j \in 1..Len(vals) :
              vals[j] >= cur /\ \A k \in 1..(j - 1) : vals[k] < cur) - 1
    ELSE Len(vals)

\* return val, val - current, true
Result(val, cur) == [next |-> val, diff |-> val - cur, ok |-> TRUE]

\* The zero values of the named results: the bare `return` on no value.
NoResult == [next |-> 0, diff |-> 0, ok |-> FALSE]

\* NextIn with the index held at the last value instead of taken modulo the
\* length: no wrap to the first value.
NextInClamped(vals, cur) ==
    IF Len(vals) = 0 THEN NoResult
    ELSE IF FirstAtLeast(vals, cur) = Len(vals) THEN Result(vals[Len(vals)], cur)
    ELSE Result(vals[FirstAtLeast(vals, cur) + 1], cur)

\* The body of components.Next after values := cs.Values(max).
NextIn(vals, cur) ==
    IF Len(vals) = 0 THEN NoResult
    ELSE Result(vals[(FirstAtLeast(vals, cur) % Len(vals)) + 1], cur)

\* components.Next(current, max) (next, diff, ok).
\* values := cs.Values(max) is computed once, and the rest works on it.
ComponentsNext(list, cur, mx) ==
    CHOOSE r \in {NextIn(vals, cur) : vals \in {Values(list, mx)}} : TRUE

----------------------------------------------------------------------------
(* weekday_component.go: a weekday component is a record [From, To],       *)
(* Monday = 1 .. Sunday = 7, To = 0 for a single day.                      *)

WeekdayComponent(f, t) == [From |-> f, To |-> t]

\* weekdayComponents.Values(), as the set its sorted slice holds.
WeekdayValues(list) ==
    UNION {IF list[i].To = 0 THEN {list[i].From}
           ELSE {v \in list[i].From..list[i].To : v <= 7} : i \in DOMAIN list}

\* weekdayComponents.Contains(day)
Contains(list, wd) == \E v \in WeekdayValues(list) : v = wd

----------------------------------------------------------------------------
(* The expressions and instants of the model.  An expression is what Parse *)
(* returns for the text given with it: lists are never empty, a range has  *)
(* From < To, a weekday is in 1..7.                                        *)

Expr(wd, y, m, dd, h, mi, s, tz) ==
    [weekdays |-> wd, years |-> y, months |-> m, days |-> dd,
     hours |-> h, minutes |-> mi, seconds |-> s, timezone |-> tz]

\* The slices of the package: the full ranges and the defaults of Parse.
allWeekdays == <<WeekdayComponent(1, 7)>>
allYears    == <<Component(1970, 2199, 0)>>
allMonths   == <<Component(1, 12, 0)>>
allDays     == <<Component(1, 31, 0)>>
allHours    == <<Component(0, 23, 0)>>
allMinutes  == <<Component(0, 59, 0)>>
allSeconds  == <<Component(0, 59, 0)>>
defaultHoursEvery == <<Component(0, 23, 0)>>     \* defaultHours, were it allHours
defaultHours   == <<Component(0, 0, 0)>>
defaultMinutes == <<Component(0, 0, 0)>>
defaultSeconds == <<Component(0, 0, 0)>>

\* A list of single values, as parseComponents builds it from "a,b,c".
Singles(vs) == [i \in DOMAIN vs |-> Component(vs[i], 0, 0)]

\* An expression with a date and a time at midnight, in UTC.
Midnight(wd, y, m, dd) ==
    Expr(wd, y, m, dd, defaultHours, defaultMinutes, defaultSeconds, "UTC")

\* Every second of every day, in a location.
EverySecond(tz) ==
    Expr(allWeekdays, allYears, allMonths, allDays, allHours, allMinutes, allSeconds, tz)

\* "Mon 1978,1989,...-02,03,11-01..05,07..12,14..19,21..26,28": the years are
\* common years that begin on a Sunday, in which no listed day is a Monday.
NoMondayYears == <<1978, 1989, 1995, 2006, 2017, 2023, 2034, 2045, 2051, 2062,
                   2073, 2079, 2090, 2102, 2113>>
NoMonday ==
    Midnight(<<WeekdayComponent(1, 0)>>, Singles(NoMondayYears), Singles(<<2, 3, 11>>),
             <<Component(1, 5, 0), Component(7, 12, 0), Component(14, 19, 0),
               Component(21, 26, 0), Component(28, 0, 0)>>)

Expressions == {
    \* the cases of TestExpression_Next
    Midnight(allWeekdays, allYears, Singles(<<1>>), Singles(<<1>>)),        \* *-01-01 00:00:00 UTC
    Midnight(allWeekdays, allYears, allMonths, Singles(<<1>>)),            \* *-*-01 00:00:00 UTC
    Midnight(allWeekdays, allYears, allMonths, allDays),                   \* *-*-* 00:00:00 UTC
    Midnight(allWeekdays, Singles(<<2005>>), allMonths, allDays),          \* 2005-*-* 00:00:00 UTC
    Midnight(<<WeekdayComponent(1, 0)>>, allYears, allMonths, allDays),    \* Mon 00:00:00 UTC
    Midnight(<<WeekdayComponent(7, 0)>>, allYears, allMonths, allDays),    \* Sun 00:00:00 UTC
    \* days that some months do not have
    Midnight(allWeekdays, allYears, Singles(<<2>>), Singles(<<29>>)),      \* *-02-29 UTC
    Midnight(allWeekdays, allYears, allMonths, Singles(<<31>>)),           \* *-*-31 UTC
    Midnight(allWeekdays, allYears, allMonths, <<Component(30, 31, 0)>>),  \* *-*-30..31 UTC
    Midnight(allWeekdays, allYears, allMonths, Singles(<<1, 31>>)),        \* *-*-01,31 UTC
    Midnight(<<WeekdayComponent(6, 7)>>, allYears, Singles(<<2>>),
             <<Component(28, 29, 0)>>),                                    \* Sat..Sun *-02-28..29 UTC
    \* values outside the range of their unit
    Midnight(allWeekdays, <<Component(2200, 2300, 0)>>, allMonths, allDays), \* 2200..2300-*-* UTC
    Midnight(allWeekdays, Singles(<<2300>>), allMonths, allDays),          \* 2300-*-* UTC
    Midnight(allWeekdays, allYears, Singles(<<13>>), allDays),             \* *-13-* UTC
    Midnight(allWeekdays, allYears, <<Component(13, 14, 0)>>, allDays),    \* *-13..14-* UTC
    Expr(allWeekdays, allYears, allMonths, allDays,
         <<Component(24, 25, 0)>>, allMinutes, allSeconds, "UTC"),         \* 24..25:*:* UTC
    Expr(allWeekdays, allYears, allMonths, allDays,
         allHours, <<Component(60, 61, 0)>>, allSeconds, "UTC"),           \* *:60..61:* UTC
    Expr(allWeekdays, allYears, allMonths, allDays,
         allHours, allMinutes, <<Component(60, 61, 0)>>, "UTC"),           \* *:*:60..61 UTC
    \* repeats and carries of the time units
    Expr(allWeekdays, allYears, allMonths, allDays,
         <<Component(6, 0, 6)>>, <<Component(15, 0, 0)>>, <<Component(10, 20, 30)>>,
         "UTC"),                                                           \* 6/6:15:10..20/30 UTC
    Expr(<<WeekdayComponent(1, 5)>>, <<Component(2006, 0, 4)>>, <<Component(1, 0, 3)>>,
         <<Component(1, 0, 14)>>, <<Component(9, 17, 0)>>, Singles(<<0, 30>>),
         defaultSeconds, "UTC"),                             \* Mon..Fri 2006/4-1/3-1/14 9..17:0,30 UTC
    \* locations with daylight saving time
    EverySecond("UTC"),                                                    \* *-*-* *:*:* UTC
    EverySecond("America/New_York"),                                       \* *-*-* *:*:* America/New_York
    EverySecond("Europe/Paris") }                                          \* *-*-* *:*:* Europe/Paris

\* The instant y-m-dd h:mi:s UTC.
At(y, m, dd, h, mi, s) == WallClock(y, m, dd, h, mi, s)

Instants == {
    At(2006, 1, 2, 15, 4, 5),       \* the instant of TestExpression_Next, a Monday
    At(2006, 1, 31, 15, 4, 5),
    At(2006, 2, 10, 15, 4, 5),
    At(2006, 12, 31, 23, 59, 59),
    At(2008, 2, 28, 23, 59, 59),    \* the eve of a leap day
    At(1970, 1, 1, 0, 0, 0),
    At(2199, 12, 31, 23, 59, 59),   \* the last second of MaxYears
    At(2023, 3, 26, 0, 59, 59),     \* Europe/Paris one second before 02:00 becomes 03:00
    At(2023, 10, 29, 0, 30, 0),     \* Europe/Paris 02:30, first time
    At(2023, 10, 29, 1, 30, 0),     \* Europe/Paris 02:30, second time
    At(2023, 11, 5, 5, 30, 0),      \* America/New_York 01:30, first time
    At(2023, 11, 5, 6, 30, 0) }     \* America/New_York 01:30, second time

----------------------------------------------------------------------------
(* Expression.Next as a state machine.                                     *)

\* The calls of the model: every expression at every instant from which the
\* rule of its location holds, and the expression of many restarts at one instant.
Calls ==
    {c \in Expressions \X Instants : In(c[2], c[1].timezone).year >= RuleSince(c[1].timezone)}
        \cup {<<NoMonday, At(1970, 1, 1, 0, 0, 0)>>}

\* No call of Schedule.Next is under way.
IdleSchedule ==
    /\ sched = <<>> /\ idx = 0 /\ candidates = <<>> /\ returned = <<>>
    /\ sn = ZeroTime /\ sok = FALSE /\ spc = "idle"

\* Before the first pass of the loop: no working values yet.
NoPass == << <<0, 0, 0, 0, 0, 0>>, <<0, 0, 0, 0, 0, 0>> >>

\* No call of Expression.Next is under way.
IdleNext ==
    /\ exp = EverySecond("UTC") /\ d = ZeroTime
    /\ year = 0 /\ month = 0 /\ day = 0 /\ hour = 0 /\ minute = 0 /\ second = 0
    /\ diff = 0 /\ ok = FALSE /\ n = ZeroTime
    /\ pc = "idle" /\ restarts = 0 /\ pass = NoPass /\ prior = <<>>

\* No call of components.Values or components.Next is under way.
IdleComponents ==
    /\ cs = <<>> /\ max = 0 /\ current = 0 /\ values = <<>> /\ res = NoResult
    /\ cpc = "idle"

\* No text is being parsed or rendered.
IdleText ==
    /\ given = <<>> /\ raw = <<>>
    /\ before = <<>> /\ out = <<>> /\ err = <<>>
    /\ text = <<>> /\ out2 = <<>> /\ err2 = <<>> /\ text2 = <<>>
    /\ tpc = "idle"

Init ==
    /\ \E c \in Calls : exp = c[1] /\ d = c[2]
    /\ year = 0 /\ month = 0 /\ day = 0 /\ hour = 0 /\ minute = 0 /\ second = 0
    /\ diff = 0 /\ ok = FALSE /\ n = ZeroTime
    /\ pc = "start" /\ restarts = 0 /\ pass = NoPass /\ prior = <<>>
    /\ cs = <<>> /\ max = 0 /\ current = 0 /\ values = <<>> /\ res = NoResult
    /\ cpc = "idle"
    /\ IdleSchedule /\ IdleText

\* What no step of Next changes.
Frame ==
    UNCHANGED <<exp, d, prior>> /\ UNCHANGED compVars /\ UNCHANGED schedVars /\ UNCHANGED textVars

\* for { ... }: a step that arrives at the top of the loop, from the declarations
\* or by a `continue`, starts a pass; pass keeps the working values the previous
\* pass and this one start with.
Top ==
    pass' = IF pc' = "years"
            THEN <<pass[2], <<year', month', day', hour', minute', second'>> >>
            ELSE pass

\* d = d.In(e.timezone) and the declaration of the working values, with
\* second = d.Second() + 1.
Start ==
    /\ pc = "start"
    /\ \E local \in {In(d, exp.timezone)} :
           /\ year' = local.year
           /\ month' = local.month
           /\ day' = local.day
           /\ hour' = local.hour
           /\ minute' = local.minute
           /\ second' = local.second + 1
    /\ pc' = "years"
    /\ UNCHANGED <<diff, ok, n, restarts>>
    /\ Frame /\ Top

\* year, diff, ok = e.years.Next(year, MaxYears)
YearsNext ==
    /\ pc = "years"
    /\ \E r \in {ComponentsNext(exp.years, year, MaxYears)} :
           year' = r.next /\ diff' = r.diff /\ ok' = r.ok
    /\ pc' = "yearsTest"
    /\ UNCHANGED <<month, day, hour, minute, second, n, restarts>>
    /\ Frame /\ Top

\* YearsTest treating diff < 0 as the other units do: reset and `continue`
\* instead of the return.
YearsTestRestart ==
    /\ pc = "yearsTest"
    /\ IF ~ok
       THEN /\ pc' = "done"
            /\ UNCHANGED <<month, day, hour, minute, second, restarts>>
       ELSE IF diff < 0
       THEN /\ restarts < MaxRestarts
            /\ month' = 1 /\ day' = 1 /\ hour' = 0 /\ minute' = 0 /\ second' = 0
            /\ pc' = "years" /\ restarts' = restarts + 1
       ELSE /\ pc' = "months"
            /\ IF diff > 0
               THEN month' = 1 /\ day' = 1 /\ hour' = 0 /\ minute' = 0 /\ second' = 0
               ELSE UNCHANGED <<month, day, hour, minute, second>>
            /\ UNCHANGED restarts
    /\ UNCHANGED <<year, diff, ok, n>>
    /\ Frame /\ Top

\* YearsTest without the return on diff < 0: the year wraps to the first value
\* and the pass goes on.
YearsTestWrap ==
    /\ pc = "yearsTest"
    /\ IF ~ok
       THEN /\ pc' = "done"
            /\ UNCHANGED <<month, day, hour, minute, second>>
       ELSE /\ pc' = "months"
            /\ IF diff # 0
               THEN month' = 1 /\ day' = 1 /\ hour' = 0 /\ minute' = 0 /\ second' = 0
               ELSE UNCHANGED <<month, day, hour, minute, second>>
    /\ UNCHANGED <<year, diff, ok, n, restarts>>
    /\ Frame /\ Top

\* if !ok { return }; if diff < 0 { ok = false; return }; if diff > 0 { reset }
YearsTest ==
    /\ pc = "yearsTest"
    /\ IF ~ok \/ diff < 0
       THEN /\ ok' = FALSE /\ pc' = "done"
            /\ UNCHANGED <<month, day, hour, minute, second>>
       ELSE /\ ok' = ok /\ pc' = "months"
            /\ IF diff > 0
               THEN month' = 1 /\ day' = 1 /\ hour' = 0 /\ minute' = 0 /\ second' = 0
               ELSE UNCHANGED <<month, day, hour, minute, second>>
    /\ UNCHANGED <<year, diff, n, restarts>>
    /\ Frame /\ Top

\* month, diff, ok = e.months.Next(month, 12)
MonthsNext ==
    /\ pc = "months"
    /\ \E r \in {ComponentsNext(exp.months, month, 12)} :
           month' = r.next /\ diff' = r.diff /\ ok' = r.ok
    /\ pc' = "monthsTest"
    /\ UNCHANGED <<year, day, hour, minute, second, n, restarts>>
    /\ Frame /\ Top

\* MonthsTest whose carry does not move the year: the month wraps to its first
\* value and the pass restarts in the same year.
MonthsTestNoCarry ==
    /\ pc = "monthsTest"
    /\ IF ~ok
       THEN /\ pc' = "done"
            /\ UNCHANGED <<day, hour, minute, second, restarts>>
       ELSE IF diff < 0
       THEN /\ restarts < MaxRestarts
            /\ day' = 1 /\ hour' = 0 /\ minute' = 0 /\ second' = 0
            /\ pc' = "years" /\ restarts' = restarts + 1
       ELSE /\ pc' = "days"
            /\ IF diff > 0
               THEN day' = 1 /\ hour' = 0 /\ minute' = 0 /\ second' = 0
               ELSE UNCHANGED <<day, hour, minute, second>>
            /\ UNCHANGED restarts
    /\ UNCHANGED <<year, month, diff, ok, n>>
    /\ Frame /\ Top

\* if !ok { return }; if diff < 0 { year++; reset; continue }; if diff > 0 { reset }
MonthsTest ==
    /\ pc = "monthsTest"
    /\ IF ~ok
       THEN /\ pc' = "done"
            /\ UNCHANGED <<year, day, hour, minute, second, restarts>>
       ELSE IF diff < 0
       THEN /\ restarts < MaxRestarts
            /\ year' = year + 1
            /\ day' = 1 /\ hour' = 0 /\ minute' = 0 /\ second' = 0
            /\ pc' = "years" /\ restarts' = restarts + 1
       ELSE /\ pc' = "days"
            /\ IF diff > 0
               THEN day' = 1 /\ hour' = 0 /\ minute' = 0 /\ second' = 0
               ELSE UNCHANGED <<day, hour, minute, second>>
            /\ UNCHANGED <<year, restarts>>
    /\ UNCHANGED <<month, diff, ok, n>>
    /\ Frame /\ Top

\* daysInMonth := ...; day, diff, ok = e.days.Next(day, daysInMonth)
DaysNext ==
    /\ pc = "days"
    /\ \E r \in {ComponentsNext(exp.days, day, dim) : dim \in {daysInMonth(year, month)}} :
           day' = r.next /\ diff' = r.diff /\ ok' = r.ok
    /\ pc' = "daysTest"
    /\ UNCHANGED <<year, month, hour, minute, second, n, restarts>>
    /\ Frame /\ Top

\* if !ok { return }; if diff < 0 { month++; reset; continue }; if diff > 0 { reset }
DaysTest ==
    /\ pc = "daysTest"
    /\ IF ~ok
       THEN /\ pc' = "done"
            /\ UNCHANGED <<month, hour, minute, second, restarts>>
       ELSE IF diff < 0
       THEN /\ restarts < MaxRestarts
            /\ month' = month + 1
            /\ hour' = 0 /\ minute' = 0 /\ second' = 0
            /\ pc' = "years" /\ restarts' = restarts + 1
       ELSE /\ pc' = "weekday"
            /\ IF diff > 0
               THEN hour' = 0 /\ minute' = 0 /\ second' = 0
               ELSE UNCHANGED <<hour, minute, second>>
            /\ UNCHANGED <<month, restarts>>
    /\ UNCHANGED <<year, day, diff, ok, n>>
    /\ Frame /\ Top

\* Go's weekdays are Sunday = 0 .. Saturday = 6, the package's Monday = 1 .. Sunday = 7.
FromGoWeekday(wd) == IF wd = 0 THEN 7 ELSE wd

\* weekday := int(time.Date(year, time.Month(month), day, 0, 0, 0, 0, e.timezone).Weekday())
\* Midnight is never inside a transition of the locations of the model, so the
\* weekday is the one of the normalised date.
Weekday(y, m, dd) == FromGoWeekday(GoWeekday(DateDays(y, m, dd)))

\* if !e.weekdays.Contains(weekday) { day++; reset; continue }
WeekdayTest ==
    /\ pc = "weekday"
    /\ IF ~Contains(exp.weekdays, Weekday(year, month, day))
       THEN /\ restarts < MaxRestarts
            /\ day' = day + 1
            /\ hour' = 0 /\ minute' = 0 /\ second' = 0
            /\ pc' = "years" /\ restarts' = restarts + 1
       ELSE /\ pc' = "hours"
            /\ UNCHANGED <<day, hour, minute, second, restarts>>
    /\ UNCHANGED <<year, month, diff, ok, n>>
    /\ Frame /\ Top

\* hour, diff, ok = e.hours.Next(hour, 23)
HoursNext ==
    /\ pc = "hours"
    /\ \E r \in {ComponentsNext(exp.hours, hour, 23)} :
           hour' = r.next /\ diff' = r.diff /\ ok' = r.ok
    /\ pc' = "hoursTest"
    /\ UNCHANGED <<year, month, day, minute, second, n, restarts>>
    /\ Frame /\ Top

\* if !ok { return }; if diff < 0 { day++; reset; continue }; if diff > 0 { reset }
HoursTest ==
    /\ pc = "hoursTest"
    /\ IF ~ok
       THEN /\ pc' = "done"
            /\ UNCHANGED <<day, minute, second, restarts>>
       ELSE IF diff < 0
       THEN /\ restarts < MaxRestarts
            /\ day' = day + 1
            /\ minute' = 0 /\ second' = 0
            /\ pc' = "years" /\ restarts' = restarts + 1
       ELSE /\ pc' = "minutes"
            /\ IF diff > 0
               THEN minute' = 0 /\ second' = 0
               ELSE UNCHANGED <<minute, second>>
            /\ UNCHANGED <<day, restarts>>
    /\ UNCHANGED <<year, month, hour, diff, ok, n>>
    /\ Frame /\ Top

\* minute, diff, ok = e.minutes.Next(minute, 59)
MinutesNext ==
    /\ pc = "minutes"
    /\ \E r \in {ComponentsNext(exp.minutes, minute, 59)} :
           minute' = r.next /\ diff' = r.diff /\ ok' = r.ok
    /\ pc' = "minutesTest"
    /\ UNCHANGED <<year, month, day, hour, second, n, restarts>>
    /\ Frame /\ Top

\* if !ok { return }; if diff < 0 { hour++; second = 0; continue }; if diff > 0 { second = 0 }
MinutesTest ==
    /\ pc = "minutesTest"
    /\ IF ~ok
       THEN /\ pc' = "done"
            /\ UNCHANGED <<hour, second, restarts>>
       ELSE IF diff < 0
       THEN /\ restarts < MaxRestarts
            /\ hour' = hour + 1
            /\ second' = 0
            /\ pc' = "years" /\ restarts' = restarts + 1
       ELSE /\ pc' = "seconds"
            /\ second' = (IF diff > 0 THEN 0 ELSE second)
            /\ UNCHANGED <<hour, restarts>>
    /\ UNCHANGED <<year, month, day, minute, diff, ok, n>>
    /\ Frame /\ Top

\* second, diff, ok = e.seconds.Next(second, 59)
SecondsNext ==
    /\ pc = "seconds"
    /\ \E r \in {ComponentsNext(exp.seconds, second, 59)} :
           second' = r.next /\ diff' = r.diff /\ ok' = r.ok
    /\ pc' = "secondsTest"
    /\ UNCHANGED <<year, month, day, hour, minute, n, restarts>>
    /\ Frame /\ Top

\* if !ok { return }; if diff < 0 { minute++; continue }; break, and after the loop
\* return time.Date(year, time.Month(month), day, hour, minute, second, 0, e.timezone), true
SecondsTest ==
    /\ pc = "secondsTest"
    /\ IF ~ok
       THEN /\ pc' = "done"
            /\ UNCHANGED <<minute, ok, n, restarts>>
       ELSE IF diff < 0
       THEN /\ restarts < MaxRestarts
            /\ minute' = minute + 1
            /\ pc' = "years" /\ restarts' = restarts + 1
            /\ UNCHANGED <<ok, n>>
       ELSE /\ n' = Date(year, month, day, hour, minute, second, exp.timezone)
            /\ ok' = TRUE
            /\ pc' = "done"
            /\ UNCHANGED <<minute, restarts>>
    /\ UNCHANGED <<year, month, day, hour, second, diff>>
    /\ Frame /\ Top

Next ==
    \/ Start
    \/ YearsNext \/ YearsTest
    \/ MonthsNext \/ MonthsTest
    \/ DaysNext \/ DaysTest
    \/ WeekdayTest
    \/ HoursNext \/ HoursTest
    \/ MinutesNext \/ MinutesTest
    \/ SecondsNext \/ SecondsTest

Spec == Init /\ [][Next]_vars

\* The loop is sequential code: a step that can run does run.
FairSpec == Spec /\ WF_vars(Next)

\* A second call of Next on the same expression, with an instant that is not
\* before the one of the first call; the first call and its results are kept.
CallNextAgain ==
    /\ pc = "done" /\ prior = <<>>
    /\ \E later \in Instants :
           /\ ~Before(later, d) /\ <<exp, later>> \in Calls
           /\ d' = later
    /\ prior' = <<[d |-> d, n |-> n, ok |-> ok]>>
    /\ year' = 0 /\ month' = 0 /\ day' = 0 /\ hour' = 0 /\ minute' = 0 /\ second' = 0
    /\ diff' = 0 /\ ok' = FALSE /\ n' = ZeroTime
    /\ pc' = "start" /\ restarts' = 0 /\ pass' = NoPass
    /\ UNCHANGED exp /\ UNCHANGED compVars /\ UNCHANGED schedVars /\ UNCHANGED textVars

NextTwice == Next \/ CallNextAgain

SpecTwice == Init /\ [][NextTwice]_vars

----------------------------------------------------------------------------
(* schedule.go: Schedule.Next, a loop of calls of Expression.Next.         *)

\* The expressions the schedules of the model are made of.
Members == {
    Midnight(allWeekdays, allYears, Singles(<<1>>), Singles(<<1>>)),        \* *-01-01 00:00:00 UTC
    Midnight(allWeekdays, allYears, allMonths, Singles(<<1>>)),            \* *-*-01 00:00:00 UTC
    Midnight(allWeekdays, Singles(<<2005>>), allMonths, allDays),          \* 2005-*-* 00:00:00 UTC
    Midnight(<<WeekdayComponent(1, 0)>>, allYears, allMonths, allDays),    \* Mon 00:00:00 UTC
    Expr(allWeekdays, allYears, allMonths, allDays,
         <<Component(6, 0, 6)>>, <<Component(15, 0, 0)>>, <<Component(10, 20, 30)>>,
         "Europe/Paris") }                                   \* 6/6:15:10..20/30 Europe/Paris

Schedules == UNION {[1..k -> Members] : k \in 0..MaxMembers}

ScheduleInstants == {
    At(2006, 1, 2, 15, 4, 5),
    At(2006, 12, 31, 23, 59, 59),
    At(2199, 12, 31, 23, 59, 59) }

InitSchedule ==
    /\ sched \in Schedules /\ d \in ScheduleInstants
    /\ idx = 0 /\ candidates = <<>> /\ returned = <<>>
    /\ sn = ZeroTime /\ sok = FALSE /\ spc = "start"
    /\ exp = EverySecond("UTC")
    /\ year = 0 /\ month = 0 /\ day = 0 /\ hour = 0 /\ minute = 0 /\ second = 0
    /\ diff = 0 /\ ok = FALSE /\ n = ZeroTime
    /\ pc = "idle" /\ restarts = 0 /\ pass = NoPass /\ prior = <<>>
    /\ cs = <<>> /\ max = 0 /\ current = 0 /\ values = <<>> /\ res = NoResult
    /\ cpc = "idle"
    /\ IdleText

\* if len(s) == 0 { return }; var candidates []time.Time; for _, e := range s
ScheduleStart ==
    /\ spc = "start"
    /\ IF Len(sched) = 0
       THEN spc' = "done" /\ idx' = idx
       ELSE spc' = "range" /\ idx' = 1
    /\ UNCHANGED <<sched, candidates, returned, sn, sok>>
    /\ UNCHANGED nextVars /\ UNCHANGED compVars /\ UNCHANGED textVars

\* next, ok := e.Next(d): the call, with fresh locals.
ScheduleCallNext ==
    /\ spc = "range" /\ idx <= Len(sched)
    /\ exp' = sched[idx]
    /\ year' = 0 /\ month' = 0 /\ day' = 0 /\ hour' = 0 /\ minute' = 0 /\ second' = 0
    /\ diff' = 0 /\ ok' = FALSE /\ n' = ZeroTime
    /\ pc' = "start" /\ restarts' = 0 /\ pass' = NoPass /\ prior' = prior
    /\ spc' = "next"
    /\ UNCHANGED <<d, sched, idx, candidates, returned, sn, sok>>
    /\ UNCHANGED compVars /\ UNCHANGED textVars

\* The return of e.Next(d): if !ok { continue }; candidates = append(candidates, next)
ScheduleCollect ==
    /\ spc = "next" /\ pc = "done"
    /\ returned' = Append(returned, [n |-> n, ok |-> ok])
    /\ candidates' = IF ok THEN Append(candidates, n) ELSE candidates
    /\ idx' = idx + 1
    /\ spc' = "range" /\ pc' = "idle"
    /\ UNCHANGED <<exp, d, year, month, day, hour, minute, second, diff, ok, n, restarts,
                   pass, prior>>
    /\ UNCHANGED <<sched, sn, sok>>
    /\ UNCHANGED compVars /\ UNCHANGED textVars

RECURSIVE InsertTime(_, _)
InsertTime(t, sorted) ==
    IF sorted = <<>> THEN <<t>>
    ELSE IF Before(t, Head(sorted)) THEN <<t>> \o sorted
    ELSE <<Head(sorted)>> \o InsertTime(t, Tail(sorted))

\* sort.Slice(candidates, func(i, j int) bool { return candidates[i].Before(candidates[j]) })
RECURSIVE SortTimes(_)
SortTimes(ts) ==
    IF ts = <<>> THEN <<>>
    ELSE CHOOSE sorted \in {InsertTime(Head(ts), rest) : rest \in {SortTimes(Tail(ts))}} : TRUE

\* ScheduleReturn without the sort: the candidate of the first member that has one.
ScheduleReturnFirst ==
    /\ spc = "range" /\ idx > Len(sched)
    /\ IF Len(candidates) = 0
       THEN UNCHANGED <<sn, sok>>
       ELSE sn' = candidates[1] /\ sok' = TRUE
    /\ spc' = "done"
    /\ UNCHANGED <<sched, idx, candidates, returned>>
    /\ UNCHANGED nextVars /\ UNCHANGED compVars /\ UNCHANGED textVars

\* if len(candidates) == 0 { return }; sort.Slice(...); return candidates[0], true
ScheduleReturn ==
    /\ spc = "range" /\ idx > Len(sched)
    /\ IF Len(candidates) = 0
       THEN UNCHANGED <<candidates, sn, sok>>
       ELSE \E sorted \in {SortTimes(candidates)} :
                candidates' = sorted /\ sn' = sorted[1] /\ sok' = TRUE
    /\ spc' = "done"
    /\ UNCHANGED <<sched, idx, returned>>
    /\ UNCHANGED nextVars /\ UNCHANGED compVars /\ UNCHANGED textVars

NextSchedule ==
    \/ ScheduleStart \/ ScheduleCallNext
    \/ Next
    \/ ScheduleCollect \/ ScheduleReturn

SpecSchedule == InitSchedule /\ [][NextSchedule]_vars

----------------------------------------------------------------------------
(* components.Values and components.Next as pure functions: one call of    *)
(* either on a list of components drawn from the bounds.                   *)

Components ==
    {c \in [From : 0..MaxFrom, To : 0..MaxTo, Repeat : 0..MaxRepeat] :
        c.To = 0 \/ c.From < c.To}

\* parseComponents returns one component for each element of strings.Split(raw, ","),
\* which is never empty.
Lists == UNION {[1..k -> Components] : k \in 1..MaxLen}

InitComponents ==
    /\ cs \in Lists
    /\ max = 0 /\ current = 0
    /\ values = <<>> /\ res = NoResult /\ cpc = "call"
    /\ exp = EverySecond("UTC") /\ d = ZeroTime
    /\ year = 0 /\ month = 0 /\ day = 0 /\ hour = 0 /\ minute = 0 /\ second = 0
    /\ diff = 0 /\ ok = FALSE /\ n = ZeroTime
    /\ pc = "idle" /\ restarts = 0 /\ pass = NoPass /\ prior = <<>>
    /\ IdleSchedule /\ IdleText

\* values = cs.Values(max)
CallValues ==
    /\ cpc = "call"
    /\ \E mx \in 0..MaxMax :
           /\ max' = mx
           /\ values' = Values(cs, mx)
    /\ cpc' = "values"
    /\ UNCHANGED <<cs, current, res>>
    /\ UNCHANGED nextVars /\ UNCHANGED schedVars /\ UNCHANGED textVars

\* next, diff, ok = cs.Next(current, max)
CallNext ==
    /\ cpc = "call"
    /\ \E mx \in 0..MaxMax, cur \in 0..MaxCurrent :
           /\ max' = mx /\ current' = cur
           /\ res' = ComponentsNext(cs, cur, mx)
    /\ cpc' = "next"
    /\ UNCHANGED <<cs, values>>
    /\ UNCHANGED nextVars /\ UNCHANGED schedVars /\ UNCHANGED textVars

NextComponents == CallValues \/ CallNext

SpecComponents == InitComponents /\ [][NextComponents]_vars

----------------------------------------------------------------------------
(* Texts. A text is a sequence of tokens: a one-character string for each  *)
(* digit, punctuation mark and white space, and one word for each maximal  *)
(* run of letters. Positions count from 1, and 0 stands for Go's -1.       *)

Digits == <<"0", "1", "2", "3", "4", "5", "6", "7", "8", "9">>

\* strings.Index(s, sep)
Index(s, sep) ==
    LET Occurs(i) == SubSeq(s, i, i + Len(sep) - 1) = sep
        Places == 1..(Len(s) - Len(sep) + 1)
    IN  IF \E i \in Places : Occurs(i)
        THEN CHOOSE i \in Places : Occurs(i) /\ \A j \in 1..(i - 1) : ~Occurs(j)
        ELSE 0

\* strings.Contains(s, sep) and strings.ContainsAny(s, chars)
StringsContains(s, sep) == Index(s, sep) # 0
ContainsAny(s, chars) == \E i \in DOMAIN s : s[i] \in chars

\* strings.Split(s, sep), for a non-empty sep: the pieces between the
\* occurrences of sep taken from the left, the empty ones included.
Split(s, sep) ==
    LET RECURSIVE From(_, _)
        From(start, i) ==
            IF i + Len(sep) - 1 > Len(s) THEN <<SubSeq(s, start, Len(s))>>
            ELSE IF SubSeq(s, i, i + Len(sep) - 1) = sep
                 THEN <<SubSeq(s, start, i - 1)>> \o From(i + Len(sep), i + Len(sep))
            ELSE From(start, i + 1)
    IN  From(1, 1)

\* strings.FieldsFunc(s, f): the maximal runs of tokens outside seps.
FieldsFunc(s, seps) ==
    LET RECURSIVE From(_, _)
        From(start, i) ==
            IF i > Len(s)
            THEN IF start < i THEN <<SubSeq(s, start, Len(s))>> ELSE <<>>
            ELSE IF s[i] \in seps
                 THEN (IF start < i THEN <<SubSeq(s, start, i - 1)>> ELSE <<>>)
                          \o From(i + 1, i + 1)
            ELSE From(start, i + 1)
    IN  From(1, 1)

\* strings.Fields(s)
Fields(s) == FieldsFunc(s, {" ", "\t", "\n"})

\* bytes.TrimSpace(s)
TrimSpace(s) ==
    LET Inked == {i \in DOMAIN s : s[i] \notin {" ", "\t", "\n"}}
    IN  IF Inked = {} THEN <<>> ELSE SubSeq(s, Least(Inked), Greatest(Inked))

\* strings.Join(parts, sep) and bytes.Join
RECURSIVE Join(_, _)
Join(parts, sep) ==
    IF parts = <<>> THEN <<>>
    ELSE IF Len(parts) = 1 THEN parts[1]
    ELSE parts[1] \o sep \o Join(Tail(parts), sep)

\* strings.ToLower on the words of the texts; every other token is its own
\* lower case.
ToLower(s) ==
    LET Lower(w) ==
            CASE w \in {"Mon", "MON"} -> "mon" [] w = "Monday" -> "monday"
              [] w = "Tue" -> "tue" [] w = "Wed" -> "wed" [] w = "Wednesday" -> "wednesday"
              [] w = "Thu" -> "thu" [] w = "Fri" -> "fri" [] w = "Sat" -> "sat"
              [] w = "Sun" -> "sun" [] w = "Sunday" -> "sunday" [] w = "UTC" -> "utc"
              [] w = "Local" -> "local" [] w = "Europe" -> "europe" [] w = "Paris" -> "paris"
              [] w = "Nowhere" -> "nowhere"
              [] OTHER -> w
    IN  [i \in DOMAIN s |-> Lower(s[i])]

\* strconv.ParseInt(s, 10, 64) on texts short enough to stay within 64 bits:
\* an optional sign and at least one digit; the value is 0 with an error.
ParseInt(s) ==
    LET first == IF s # <<>> /\ s[1] \in {"+", "-"} THEN 2 ELSE 1
        RECURSIVE Number(_)
        Number(hi) ==
            IF hi < first THEN 0
            ELSE Number(hi - 1) * 10 + (CHOOSE i \in DOMAIN Digits : Digits[i] = s[hi]) - 1
    IN  IF first > Len(s) \/ \E k \in first..Len(s) : \A i \in DOMAIN Digits : Digits[i] # s[k]
        THEN [v |-> 0, ok |-> FALSE]
        ELSE [v |-> IF s[1] = "-" THEN 0 - Number(Len(s)) ELSE Number(Len(s)), ok |-> TRUE]

\* The decimal digits of v >= 0, as fmt's %d prints them.
RECURSIVE Decimal(_)
Decimal(v) == IF v < 10 THEN <<Digits[v + 1]>> ELSE Decimal(v \div 10) \o <<Digits[(v % 10) + 1]>>

\* fmt's %02d of v >= 0
Decimal02(v) == IF v < 10 THEN <<"0">> \o Decimal(v) ELSE Decimal(v)

----------------------------------------------------------------------------
(* Errors: the message, the index and the chunk it names if any, and the   *)
(* errors it wraps, outermost first.                                       *)

nil == [msg |-> "<nil>", index |-> -1, chunk |-> <<>>, cause |-> <<>>]

\* errors.New(msg)
New(msg) == [msg |-> msg, index |-> -1, chunk |-> <<>>, cause |-> <<>>]

\* fmt.Errorf(`msg %d: %w`, index, e); index is -1 for a format without %d
Errorf(msg, index, e) ==
    [msg |-> msg, index |-> index, chunk |-> <<>>,
     cause |-> <<[msg |-> e.msg, index |-> e.index]>> \o e.cause]

----------------------------------------------------------------------------
(* component.go and weekday_component.go: parsing and rendering.           *)

\* The cut of the text at its first "/" in parseValue and parseRange.
Cut(s) ==
    IF Index(s, <<"/">>) # 0
    THEN [value |-> SubSeq(s, 1, Index(s, <<"/">>) - 1),
          repeat |-> SubSeq(s, Index(s, <<"/">>) + 1, Len(s)), found |-> TRUE]
    ELSE [value |-> s, repeat |-> <<>>, found |-> FALSE]

\* The end of parseValue and of parseRange: the repeat after From and To.
WithRepeat(from, to, found, r) ==
    IF found /\ ~r.ok THEN [c |-> Component(from, to, 0), err |-> New("invalid repeat")]
    ELSE IF r.v < 0 THEN [c |-> Component(from, to, 0), err |-> New("invalid negative repeat")]
    ELSE [c |-> Component(from, to, r.v), err |-> nil]

parseValue(s) ==
    LET v == ParseInt(Cut(s).value)
    IN  IF ~v.ok THEN [c |-> Component(0, 0, 0), err |-> New("invalid value")]
        ELSE IF v.v < 0 THEN [c |-> Component(0, 0, 0), err |-> New("invalid negative value")]
        ELSE WithRepeat(v.v, 0, Cut(s).found, ParseInt(Cut(s).repeat))

\* parseRange without its `if c.From >= c.To`.
parseRangeUnchecked(s) ==
    LET bounds == Split(Cut(s).value, <<".", ".">>)
        lo == ParseInt(bounds[1])
        hi == ParseInt(bounds[2])
    IN  IF Len(bounds) # 2 THEN [c |-> Component(0, 0, 0), err |-> New("invalid range")]
        ELSE IF ~lo.ok THEN [c |-> Component(0, 0, 0), err |-> New("invalid value")]
        ELSE IF lo.v < 0
             THEN [c |-> Component(0, 0, 0), err |-> New("invalid negative lower bound")]
        ELSE IF ~hi.ok THEN [c |-> Component(lo.v, 0, 0), err |-> New("invalid value")]
        ELSE IF hi.v < 0
             THEN [c |-> Component(lo.v, 0, 0), err |-> New("invalid negative upper bound")]
        ELSE WithRepeat(lo.v, hi.v, Cut(s).found, ParseInt(Cut(s).repeat))

parseRange(s) ==
    LET bounds == Split(Cut(s).value, <<".", ".">>)
        lo == ParseInt(bounds[1])
        hi == ParseInt(bounds[2])
    IN  IF Len(bounds) # 2 THEN [c |-> Component(0, 0, 0), err |-> New("invalid range")]
        ELSE IF ~lo.ok THEN [c |-> Component(0, 0, 0), err |-> New("invalid value")]
        ELSE IF lo.v < 0
             THEN [c |-> Component(0, 0, 0), err |-> New("invalid negative lower bound")]
        ELSE IF ~hi.ok THEN [c |-> Component(lo.v, 0, 0), err |-> New("invalid value")]
        ELSE IF hi.v < 0
             THEN [c |-> Component(lo.v, 0, 0), err |-> New("invalid negative upper bound")]
        ELSE IF lo.v >= hi.v THEN [c |-> Component(lo.v, hi.v, 0), err |-> New("invalid bounds")]
        ELSE WithRepeat(lo.v, hi.v, Cut(s).found, ParseInt(Cut(s).repeat))

\* parseComponents with `continue` in the place of each `return cs, fmt.Errorf(...)`.
parseComponentsSkipping(s) ==
    LET RECURSIVE Loop(_, _, _)
        Loop(chunks, index, list) ==
            IF index > Len(chunks) THEN [cs |-> list, err |-> nil]
            ELSE CHOOSE r \in
                    {Loop(chunks, index + 1, IF p.err # nil THEN list ELSE Append(list, p.c)) :
                         p \in {IF StringsContains(chunks[index], <<".", ".">>)
                                THEN parseRange(chunks[index])
                                ELSE parseValue(chunks[index])}} : TRUE
    IN  CHOOSE r \in {Loop(chunks, 1, <<>>) : chunks \in {Split(s, <<",">>)}} : TRUE

\* parseComponents: Loop is its `for` from the chunk at index (counted from
\* 1) on, with the components appended so far.
parseComponents(s) ==
    LET RECURSIVE Loop(_, _, _)
        Loop(chunks, index, list) ==
            IF index > Len(chunks) THEN [cs |-> list, err |-> nil]
            ELSE IF StringsContains(chunks[index], <<".", ".">>)
                 THEN CHOOSE r \in
                         {IF p.err # nil
                          THEN [cs |-> list, err |-> Errorf("parsing range", index - 1, p.err)]
                          ELSE Loop(chunks, index + 1, Append(list, p.c)) :
                              p \in {parseRange(chunks[index])}} : TRUE
            ELSE CHOOSE r \in
                    {IF p.err # nil
                     THEN [cs |-> list, err |-> Errorf("parsing value", index - 1, p.err)]
                     ELSE Loop(chunks, index + 1, Append(list, p.c)) :
                         p \in {parseValue(chunks[index])}} : TRUE
    IN  CHOOSE r \in {Loop(chunks, 1, <<>>) : chunks \in {Split(s, <<",">>)}} : TRUE

\* component.MarshalText without its `if c.To != 0`.
ComponentTextWithTo(c) ==
    Decimal02(c.From) \o <<".", ".">> \o Decimal02(c.To)
        \o (IF c.Repeat # 0 THEN <<"/">> \o Decimal(c.Repeat) ELSE <<>>)

\* fmt.Fprintf(&buf, "%02d", c.From), "..%02d" of c.To, "/%d" of c.Repeat
ComponentText(c) ==
    Decimal02(c.From)
        \o (IF c.To # 0 THEN <<".", ".">> \o Decimal02(c.To) ELSE <<>>)
        \o (IF c.Repeat # 0 THEN <<"/">> \o Decimal(c.Repeat) ELSE <<>>)

\* components.MarshalText and components.String
ComponentsText(list) == Join([i \in DOMAIN list |-> ComponentText(list[i])], <<",">>)

weekdaysValues ==
    [w \in {"monday", "mon", "tuesday", "tue", "wednesday", "wed", "thursday", "thu",
            "friday", "fri", "saturday", "sat", "sunday", "sun"} |->
        CASE w \in {"monday", "mon"} -> 1
          [] w \in {"tuesday", "tue"} -> 2
          [] w \in {"wednesday", "wed"} -> 3
          [] w \in {"thursday", "thu"} -> 4
          [] w \in {"friday", "fri"} -> 5
          [] w \in {"saturday", "sat"} -> 6
          [] w \in {"sunday", "sun"} -> 7]

weekdaysStrings == <<"Mon", "Tue", "Wed", "Thu", "Fri", "Sat", "Sun">>

\* v, ok := weekdaysValues[strings.ToLower(s)]: a key of the map is one word.
WeekdayLookup(s) ==
    IF Len(s) = 1 /\ ToLower(s)[1] \in DOMAIN weekdaysValues
    THEN [v |-> weekdaysValues[ToLower(s)[1]], ok |-> TRUE]
    ELSE [v |-> 0, ok |-> FALSE]

parseWeekdayValue(s) ==
    IF ~WeekdayLookup(s).ok
    THEN [c |-> WeekdayComponent(0, 0), err |-> New("invalid weekday")]
    ELSE [c |-> WeekdayComponent(WeekdayLookup(s).v, 0), err |-> nil]

parseWeekdayRange(s) ==
    LET bounds == Split(s, <<".", ".">>)
        lo == WeekdayLookup(bounds[1])
        hi == WeekdayLookup(bounds[2])
    IN  IF Len(bounds) # 2 THEN [c |-> WeekdayComponent(0, 0), err |-> New("invalid range")]
        ELSE IF ~lo.ok THEN [c |-> WeekdayComponent(0, 0), err |-> New("invalid weekday")]
        ELSE IF ~hi.ok THEN [c |-> WeekdayComponent(lo.v, 0), err |-> New("invalid weekday")]
        ELSE IF lo.v >= hi.v
             THEN [c |-> WeekdayComponent(lo.v, hi.v), err |-> New("invalid bounds")]
        ELSE [c |-> WeekdayComponent(lo.v, hi.v), err |-> nil]

parseWeekdayComponents(s) ==
    LET RECURSIVE Loop(_, _, _)
        Loop(chunks, index, list) ==
            IF index > Len(chunks) THEN [cs |-> list, err |-> nil]
            ELSE IF StringsContains(chunks[index], <<".", ".">>)
                 THEN CHOOSE r \in
                         {IF p.err # nil
                          THEN [cs |-> list, err |-> Errorf("parsing range", index - 1, p.err)]
                          ELSE Loop(chunks, index + 1, Append(list, p.c)) :
                              p \in {parseWeekdayRange(chunks[index])}} : TRUE
            ELSE CHOOSE r \in
                    {IF p.err # nil
                     THEN [cs |-> list, err |-> Errorf("parsing value", index - 1, p.err)]
                     ELSE Loop(chunks, index + 1, Append(list, p.c)) :
                         p \in {parseWeekdayValue(chunks[index])}} : TRUE
    IN  CHOOSE r \in {Loop(chunks, 1, <<>>) : chunks \in {Split(s, <<",">>)}} : TRUE

\* fmt.Fprintf(&buf, "%s", weekdaysStrings[c.From]) and "..%s" of c.To; a
\* key the map does not have prints as nothing.
WeekdayComponentText(c) ==
    LET Name(v) == IF v \in DOMAIN weekdaysStrings THEN <<weekdaysStrings[v]>> ELSE <<>>
    IN  Name(c.From) \o (IF c.To # 0 THEN <<".", ".">> \o Name(c.To) ELSE <<>>)

\* weekdayComponents.MarshalText and weekdayComponents.String
WeekdayComponentsText(list) ==
    Join([i \in DOMAIN list |-> WeekdayComponentText(list[i])], <<",">>)

----------------------------------------------------------------------------
(* Parse, Expression.UnmarshalText and Expression.MarshalText.             *)

\* time.Local, and the nil *time.Location of the zero Expression
Local == "Local"
NilLocation == "nil"

\* (*time.Location).String(), which is "UTC" for a nil location
LocationText(loc) ==
    CASE loc = "UTC" -> <<"UTC">>
      [] loc = NilLocation -> <<"UTC">>
      [] loc = Local -> <<"Local">>
      [] loc = "Europe/Paris" -> <<"Europe", "/", "Paris">>
      [] loc = "America/New_York" -> <<"America", "/", "New", "_", "York">>

\* time.LoadLocation(name) for a name that is not empty
LoadLocation(name) ==
    IF \E loc \in Locations \cup {Local} : LocationText(loc) = name
    THEN [loc |-> CHOOSE loc \in Locations \cup {Local} : LocationText(loc) = name, err |-> nil]
    ELSE [loc |-> NilLocation, err |-> New("unknown time zone")]

\* The zero value of Expression
ZeroExpression == Expr(<<>>, <<>>, <<>>, <<>>, <<>>, <<>>, <<>>, NilLocation)

\* The only member of a set of one member.
Only(S) == CHOOSE x \in S : TRUE

\* Parse from its weekday step on: st holds exp, err and the chunks not yet
\* taken, and a step leaves st as it is once err is set.
ParseWeekdays(st) ==
    IF st.err # nil \/ ContainsAny(st.chunks[1], {"-", ":"}) THEN st
    ELSE Only({IF r.err # nil
               THEN [st EXCEPT !.exp.weekdays = r.cs,
                               !.err = Errorf("parsing weekdays", -1, r.err)]
               ELSE [st EXCEPT !.exp.weekdays = r.cs, !.chunks = Tail(st.chunks)] :
                   r \in {parseWeekdayComponents(st.chunks[1])}})

\* exp.years, err = parseComponents(parts[0]) and its like: `all` is the
\* value a "*" part gives, the field as it is where the code has no `else`.
ParseField(st, field, part, all) ==
    IF st.err # nil THEN st
    ELSE IF part = <<"*">> THEN [st EXCEPT !.exp[field] = all]
    ELSE Only({[st EXCEPT !.exp[field] = r.cs,
                          !.err = IF r.err # nil THEN Errorf("parsing " \o field, -1, r.err)
                                  ELSE nil] :
                   r \in {parseComponents(part)}})

ParseDate(st) ==
    IF st.err # nil \/ Len(st.chunks) = 0 \/ ~StringsContains(st.chunks[1], <<"-">>) THEN st
    ELSE Only({
        IF Len(parts) > 3 THEN [st EXCEPT !.err = New("invalid parts component")]
        ELSE Only({IF t3.err # nil THEN t3 ELSE [t3 EXCEPT !.chunks = Tail(st.chunks)] :
                t3 \in {ParseField(t2, "days", parts[Len(parts)], t2.exp.days) :
                t2 \in {ParseField(t1, "months", parts[Len(parts) - 1], t1.exp.months) :
                t1 \in {ParseField(st, "years",
                                   IF Len(parts) = 2 THEN <<"*">> ELSE parts[1],
                                   st.exp.years)}}}}) :
            parts \in {Split(st.chunks[1], <<"-">>)}})

ParseTime(st) ==
    IF st.err # nil \/ Len(st.chunks) = 0 \/ ~StringsContains(st.chunks[1], <<":">>) THEN st
    ELSE Only({
        IF Len(parts) > 3 THEN [st EXCEPT !.err = New("invalid time component")]
        ELSE Only({IF t3.err # nil THEN t3 ELSE [t3 EXCEPT !.chunks = Tail(st.chunks)] :
                t3 \in {ParseField(t2, "seconds",
                                   IF Len(parts) = 2 THEN <<"0", "0">> ELSE parts[3],
                                   allSeconds) :
                t2 \in {ParseField(t1, "minutes", parts[2], allMinutes) :
                t1 \in {ParseField(st, "hours", parts[1], allHours)}}}}) :
            parts \in {Split(st.chunks[1], <<":">>)}})

\* The timezone step with no error for a chunk that is left after it.
ParseTimezoneLenient(st) ==
    IF st.err # nil \/ Len(st.chunks) = 0 THEN st
    ELSE Only({IF r.err # nil
               THEN [st EXCEPT !.exp.timezone = r.loc,
                               !.err = [New("invalid chunk") EXCEPT !.chunk = st.chunks[1]]]
               ELSE [st EXCEPT !.exp.timezone = r.loc, !.chunks = Tail(st.chunks)] :
                   r \in {LoadLocation(st.chunks[1])}})

\* The timezone step and the error for a chunk that is left after it.
ParseTimezone(st) ==
    IF st.err # nil \/ Len(st.chunks) = 0 THEN st
    ELSE Only({IF r.err # nil
               THEN [st EXCEPT !.exp.timezone = r.loc,
                               !.err = [New("invalid chunk") EXCEPT !.chunk = st.chunks[1]]]
               ELSE IF Len(st.chunks) > 1
               THEN [st EXCEPT !.exp.timezone = r.loc,
                               !.err = [New("invalid chunk") EXCEPT !.chunk = st.chunks[2]],
                               !.chunks = Tail(st.chunks)]
               ELSE [st EXCEPT !.exp.timezone = r.loc, !.chunks = Tail(st.chunks)] :
                   r \in {LoadLocation(st.chunks[1])}})

Parse(s) ==
    LET default == Expr(allWeekdays, allYears, allMonths, allDays,
                        defaultHours, defaultMinutes, defaultSeconds, Local)
    IN  Only({
            IF Len(chunks) = 0 THEN [exp |-> default, err |-> New("empty expression")]
            ELSE IF Len(chunks) > 4 THEN [exp |-> default, err |-> New("too many components")]
            ELSE Only({[exp |-> t4.exp, err |-> t4.err] :
                    t4 \in {ParseTimezone(t3) :
                    t3 \in {ParseTime(t2) :
                    t2 \in {ParseDate(t1) :
                    t1 \in {ParseWeekdays([exp |-> default, err |-> nil,
                                           chunks |-> chunks])}}}}}) :
                chunks \in {Fields(s)}})

\* Expression.MarshalText and Expression.String
MarshalText(e) ==
    LET Field(list, all) == IF list = all THEN <<"*">> ELSE ComponentsText(list)
    IN  (IF e.weekdays # allWeekdays THEN WeekdayComponentsText(e.weekdays) \o <<" ">> ELSE <<>>)
            \o Field(e.years, allYears) \o <<"-">>
            \o Field(e.months, allMonths) \o <<"-">>
            \o Field(e.days, allDays) \o <<" ">>
            \o Field(e.hours, allHours) \o <<":">>
            \o Field(e.minutes, allMinutes) \o <<":">>
            \o Field(e.seconds, allSeconds)
            \o (IF e.timezone # Local THEN <<" ">> \o LocationText(e.timezone) ELSE <<>>)

\* The chunks the texts of expressions are made of.
WeekdayChunks == {
    <<"Mon">>,
    <<"monday">>,
    <<"Mon", ".", ".", "Sun">>,
    <<"Sat", ",", "Thu", ",", "Mon", ".", ".", "Wed", ",", "Sat", ".", ".", "Sun">>,
    <<"Wed", ".", ".", "Mon">> }

DateChunks == {
    <<"*", "-", "*", "-", "*">>,
    <<"2", "0", "0", "6", "-", "0", "1", "-", "0", "2">>,
    <<"1", "0", "-", "1", "5">>,
    <<"*", "-", "1", "3", "-", "*">>,
    <<"*", "-", "*", "-", "3", ",", "1", ",", "2">>,
    <<"*", "-", "1", "/", "2", "-", "1", ",", "3">>,
    <<"1", "9", "7", "0", ".", ".", "2", "1", "9", "9", "-", "1", ".", ".", "1", "2", "-",
      "1", ".", ".", "3", "1">>,
    <<"2", "0", "0", "6", "-", "Mon", "-", "0", "1">>,
    <<"2", "0", "0", "6", "-", "1", "-", "2", "-", "3">> }

TimeChunks == {
    <<"1", "5", ":", "0", "4", ":", "0", "5">>,
    <<"0", "5", ":", "4", "0">>,
    <<"0", ":", "0", ":", "0">>,
    <<"*", ":", "*", ":", "*">>,
    <<"*", ":", "2", "/", "3">>,
    <<"1", "2", ",", "1", "4", ",", "1", "3", ",", "1", "2", ":", "2", "0", ",", "1", "0", ",",
      "3", "0">>,
    <<"0", ".", ".", "2", "3", ":", "0", ".", ".", "5", "9", ":", "0", ".", ".", "5", "9">>,
    <<"2", "5", ":", "0", "0">>,
    <<"1", ":", "2", ":", "3", ":", "4">> }

TimezoneChunks == {
    <<"UTC">>,
    <<"Local">>,
    <<"Europe", "/", "Paris">>,
    <<"Nowhere">> }

\* The chunks of a text: at most one of each kind in the order of the
\* format, or up to MaxChunks chunks in any order.
Givens ==
    LET OneOrNone(S) == {<<>>} \cup {<<c>> : c \in S}
    IN  {w \o dt \o tm \o tz : w \in OneOrNone(WeekdayChunks), dt \in OneOrNone(DateChunks),
                                 tm \in OneOrNone(TimeChunks), tz \in OneOrNone(TimezoneChunks)}
        \cup UNION {[1..k -> {<<"Mon">>, <<"*", "-", "*", "-", "*">>, <<"0", "5", ":", "4", "0">>,
                              <<"UTC">>}] : k \in 0..MaxChunks}

InitText ==
    /\ given \in Givens
    /\ raw \in {Join(given, <<" ">>), <<" ">> \o Join(given, <<"\t", " ">>) \o <<" ">>}
    /\ before = ZeroExpression /\ out = ZeroExpression /\ err = nil
    /\ text = <<>> /\ out2 = ZeroExpression /\ err2 = nil /\ text2 = <<>>
    /\ tpc = "call"
    /\ IdleNext /\ IdleComponents /\ IdleSchedule

\* exp, err := Parse(raw)
CallParse ==
    /\ tpc = "call"
    /\ \E r \in {Parse(raw)} : out' = r.exp /\ err' = r.err
    /\ tpc' = "parsed"
    /\ UNCHANGED <<given, raw, before, text, out2, err2, text2>>
    /\ UNCHANGED nextVars /\ UNCHANGED compVars /\ UNCHANGED schedVars

\* err := e.UnmarshalText(raw), that is *e, err = Parse(string(raw)), for a
\* receiver that is the zero Expression or holds an expression already.
CallUnmarshalText ==
    /\ tpc = "call"
    /\ before' \in {ZeroExpression,
                    Expr(<<WeekdayComponent(1, 0)>>, Singles(<<2006>>), Singles(<<1>>),
                         Singles(<<2>>), Singles(<<15>>), Singles(<<4>>), Singles(<<5>>),
                         "Europe/Paris")}
    /\ \E r \in {Parse(raw)} : out' = r.exp /\ err' = r.err
    /\ tpc' = "unmarshalled"
    /\ UNCHANGED <<given, raw, text, out2, err2, text2>>
    /\ UNCHANGED nextVars /\ UNCHANGED compVars /\ UNCHANGED schedVars

\* text, _ := exp.MarshalText()
CallMarshalText ==
    /\ tpc = "parsed" /\ err = nil
    /\ text' = MarshalText(out)
    /\ tpc' = "rendered"
    /\ UNCHANGED <<given, raw, before, out, err, out2, err2, text2>>
    /\ UNCHANGED nextVars /\ UNCHANGED compVars /\ UNCHANGED schedVars

\* exp2, err2 := Parse(text)
CallParseText ==
    /\ tpc = "rendered"
    /\ \E r \in {Parse(text)} : out2' = r.exp /\ err2' = r.err
    /\ tpc' = "reparsed"
    /\ UNCHANGED <<given, raw, before, out, err, text, text2>>
    /\ UNCHANGED nextVars /\ UNCHANGED compVars /\ UNCHANGED schedVars

\* text2, _ := exp2.MarshalText()
CallMarshalTextAgain ==
    /\ tpc = "reparsed" /\ err2 = nil
    /\ text2' = MarshalText(out2)
    /\ tpc' = "done"
    /\ UNCHANGED <<given, raw, before, out, err, text, out2, err2>>
    /\ UNCHANGED nextVars /\ UNCHANGED compVars /\ UNCHANGED schedVars

NextText ==
    \/ CallParse \/ CallUnmarshalText
    \/ CallMarshalText \/ CallParseText \/ CallMarshalTextAgain

SpecText == InitText /\ [][NextText]_vars

----------------------------------------------------------------------------
(* schedule.go: ParseSchedule, Schedule.UnmarshalText, Schedule.MarshalText. *)

ParseSchedule(s) ==
    LET RECURSIVE Loop(_, _, _)
        Loop(lines, index, list) ==
            IF index > Len(lines) THEN [s |-> list, err |-> nil]
            ELSE Only({IF r.err # nil
                       THEN [s |-> list, err |-> Errorf("parsing expression", index - 1, r.err)]
                       ELSE Loop(lines, index + 1, Append(list, r.exp)) :
                           r \in {Parse(lines[index])}})
    IN  Only({Loop(lines, 1, <<>>) : lines \in {Split(s, <<"\n">>)}})

\* Schedule.UnmarshalText on the receiver recv: s is the receiver after the call.
ScheduleUnmarshalText(recv, s) ==
    LET RECURSIVE Loop(_, _, _)
        Loop(fields, index, list) ==
            IF index > Len(fields) THEN [s |-> list, err |-> nil]
            ELSE IF Len(TrimSpace(fields[index])) = 0 THEN Loop(fields, index + 1, list)
            ELSE Only({IF r.err # nil THEN [s |-> recv, err |-> r.err]
                       ELSE Loop(fields, index + 1, Append(list, r.exp)) :
                           r \in {Parse(fields[index])}})
    IN  Only({Loop(fields, 1, <<>>) : fields \in {FieldsFunc(s, {"\n"})}})

\* Schedule.MarshalText: bytes.Join(expressions, []byte("\""))
ScheduleMarshalText(s) == Join([i \in DOMAIN s |-> MarshalText(s[i])], <<"\"">>)

\* The lines the texts of schedules are made of.
Lines == {
    <<"Mon">>,
    <<"1", "0", "-", "1", "5">>,
    <<"0", "5", ":", "4", "0", " ", "UTC">>,
    <<"Mon", ".", ".", "Fri", " ", "*", "-", "*", "-", "0", "1", " ", "*", ":", "0", "/", "1", "5",
      " ", "Europe", "/", "Paris">>,
    <<"*", "-", "*", "-", "*", " ", "0", "0", ":", "0", "0", ":", "0", "0">>,
    <<" ">>,
    <<"Nowhere">> }

InitScheduleText ==
    /\ given \in UNION {[1..k -> Lines] : k \in 0..MaxLines}
    /\ raw = Join(given, <<"\n">>)
    /\ before = <<>> /\ out = <<>> /\ err = nil
    /\ text = <<>> /\ out2 = <<>> /\ err2 = nil /\ text2 = <<>>
    /\ tpc = "call"
    /\ IdleNext /\ IdleComponents /\ IdleSchedule

\* s, err := ParseSchedule(raw)
CallParseSchedule ==
    /\ tpc = "call"
    /\ \E r \in {ParseSchedule(raw)} : out' = r.s /\ err' = r.err
    /\ tpc' = "parsed"
    /\ UNCHANGED <<given, raw, before, text, out2, err2, text2>>
    /\ UNCHANGED nextVars /\ UNCHANGED compVars /\ UNCHANGED schedVars

\* text, _ := s.MarshalText()
CallScheduleMarshalText ==
    /\ tpc = "parsed" /\ err = nil
    /\ text' = ScheduleMarshalText(out)
    /\ tpc' = "rendered"
    /\ UNCHANGED <<given, raw, before, out, err, out2, err2, text2>>
    /\ UNCHANGED nextVars /\ UNCHANGED compVars /\ UNCHANGED schedVars

\* s2, err2 := ParseSchedule(text)
CallParseScheduleText ==
    /\ tpc = "rendered"
    /\ \E r \in {ParseSchedule(text)} : out2' = r.s /\ err2' = r.err
    /\ tpc' = "reparsed"
    /\ UNCHANGED <<given, raw, before, out, err, text, text2>>
    /\ UNCHANGED nextVars /\ UNCHANGED compVars /\ UNCHANGED schedVars

\* var s2 Schedule; err2 := s2.UnmarshalText(text)
CallScheduleUnmarshalText ==
    /\ tpc = "rendered"
    /\ \E r \in {ScheduleUnmarshalText(before, text)} : out2' = r.s /\ err2' = r.err
    /\ tpc' = "unmarshalled"
    /\ UNCHANGED <<given, raw, before, out, err, text, text2>>
    /\ UNCHANGED nextVars /\ UNCHANGED compVars /\ UNCHANGED schedVars

NextScheduleText ==
    \/ CallParseSchedule \/ CallScheduleMarshalText
    \/ CallParseScheduleText \/ CallScheduleUnmarshalText

SpecScheduleText == InitScheduleText /\ [][NextScheduleText]_vars

----------------------------------------------------------------------------
(* parseComponents and parseWeekdayComponents on the texts of lists.       *)

\* The elements the list texts are made of, a "," between two of them.
Elements == {
    <<>>,
    <<"1">>,
    <<"2", "/", "2">>,
    <<"1", "/">>,
    <<"-", "1">>,
    <<"1", ".", ".", "2">>,
    <<"0", ".", ".", "2", "/", "2">>,
    <<"2", ".", ".", "1">>,
    <<"1", ".", ".", "1">>,
    <<"Mon">>,
    <<"wed", ".", ".", "Sun">>,
    <<"Wed", ".", ".", "Mon">>,
    <<"Sun", ".", ".", "Sun">> }

ElementLists == UNION {[1..k -> Elements] : k \in 1..MaxElements}

InitLists ==
    /\ given \in ElementLists
    /\ raw = Join(given, <<",">>)
    /\ before = <<>> /\ out = <<>> /\ err = nil
    /\ text = <<>> /\ out2 = <<>> /\ err2 = nil /\ text2 = <<>>
    /\ tpc = "call"
    /\ IdleNext /\ IdleComponents /\ IdleSchedule

\* cs, err := parseComponents(raw)
CallParseComponents ==
    /\ tpc = "call"
    /\ \E r \in {parseComponents(raw)} : out' = r.cs /\ err' = r.err
    /\ tpc' = "components"
    /\ UNCHANGED <<given, raw, before, text, out2, err2, text2>>
    /\ UNCHANGED nextVars /\ UNCHANGED compVars /\ UNCHANGED schedVars

\* cs, err := parseWeekdayComponents(raw)
CallParseWeekdayComponents ==
    /\ tpc = "call"
    /\ \E r \in {parseWeekdayComponents(raw)} : out' = r.cs /\ err' = r.err
    /\ tpc' = "weekdays"
    /\ UNCHANGED <<given, raw, before, text, out2, err2, text2>>
    /\ UNCHANGED nextVars /\ UNCHANGED compVars /\ UNCHANGED schedVars

NextLists == CallParseComponents \/ CallParseWeekdayComponents

SpecLists == InitLists /\ [][NextLists]_vars

----------------------------------------------------------------------------
(* What an expression denotes, independently of Values and Next.           *)

\* The component c denotes the value v: a single value, an inclusive range,
\* or either of them shifted by a multiple of Repeat.
Denotes(c, v) ==
    IF c.Repeat = 0
    THEN IF c.To = 0 THEN v = c.From ELSE c.From <= v /\ v <= c.To
    ELSE /\ v >= c.From
         /\ IF c.To = 0 THEN (v - c.From) % c.Repeat = 0
            ELSE (v - c.From) % c.Repeat <= c.To - c.From

Matches(list, v) == \E i \in DOMAIN list : Denotes(list[i], v)

WeekdayMatches(list, wd) ==
    \E i \in DOMAIN list :
        IF list[i].To = 0 THEN wd = list[i].From
        ELSE list[i].From <= wd /\ wd <= list[i].To

\* The weekday, Monday = 1 .. Sunday = 7, of a date of the calendar.
WeekdayOf(y, m, dd) == FromGoWeekday(GoWeekday(DaysFromCivil(y, m, dd)))

\* The wall clock reading r satisfies the expression e.
Satisfies(e, r) ==
    /\ Matches(e.years, r.year) /\ Matches(e.months, r.month) /\ Matches(e.days, r.day)
    /\ Matches(e.hours, r.hour) /\ Matches(e.minutes, r.minute)
    /\ Matches(e.seconds, r.second)
    /\ WeekdayMatches(e.weekdays, WeekdayOf(r.year, r.month, r.day))

\* The instants whose wall clock reading in loc is the second sod of the day z:
\* none, one or two.
InstantsAt(z, sod, loc) ==
    {t \in {AddSeconds(Instant(z, sod), 0 - o) : o \in {StdOffset(loc), DstOffset(loc)}} :
        AddSeconds(t, OffsetAt(loc, t)) = Instant(z, sod)}

\* The day number of the wall clock reading of t in loc.
LocalDay(t, loc) == AddSeconds(t, OffsetAt(loc, t)).day

\* Some instant read as hour h of the day z may lie strictly between lo and hi.
HourTouches(z, h, lo, hi, loc) ==
    \E o \in {StdOffset(loc), DstOffset(loc)} :
        /\ Before(lo, AddSeconds(Instant(z, h * 3600 + 3599), 0 - o))
        /\ Before(AddSeconds(Instant(z, h * 3600), 0 - o), hi)

\* Some instant strictly between lo and hi satisfies e.  The search goes unit by
\* unit over the values each field denotes and leaves out the days and hours
\* that lie wholly outside the interval.
SatisfiedBetween(e, lo, hi) ==
    /\ \E h \in 0..23 : Matches(e.hours, h)
    /\ \E mi \in 0..59 : Matches(e.minutes, mi)
    /\ \E s \in 0..59 : Matches(e.seconds, s)
    /\ \E y \in In(lo, e.timezone).year .. In(hi, e.timezone).year :
        /\ Matches(e.years, y)
        /\ \E m \in 1..12 :
            /\ Matches(e.months, m)
            /\ \E dd \in 1..daysInMonth(y, m) :
                /\ Matches(e.days, dd)
                /\ DaysFromCivil(y, m, dd) >= LocalDay(lo, e.timezone)
                /\ DaysFromCivil(y, m, dd) <= LocalDay(hi, e.timezone)
                /\ WeekdayMatches(e.weekdays, WeekdayOf(y, m, dd))
                /\ \E h \in 0..23 :
                    /\ Matches(e.hours, h)
                    /\ HourTouches(DaysFromCivil(y, m, dd), h, lo, hi, e.timezone)
                    /\ \E mi \in 0..59 :
                        /\ Matches(e.minutes, mi)
                        /\ \E s \in 0..59 :
                            /\ Matches(e.seconds, s)
                            /\ \E t \in InstantsAt(DaysFromCivil(y, m, dd),
                                                   h * 3600 + mi * 60 + s, e.timezone) :
                                Before(lo, t) /\ Before(t, hi)

\* The first instant of the year after MaxYears in loc (standard time is in
\* force at the turn of the year).
EndOfYears(loc) ==
    AddSeconds(Instant(DaysFromCivil(MaxYears + 1, 1, 1), 0), 0 - StdOffset(loc))

----------------------------------------------------------------------------
(* The claims about Expression.Next.                                       *)

\* The set of the elements of a sequence.
Range(seq) == {seq[i] : i \in DOMAIN seq}

Found == pc = "done" /\ ok
NotFound == pc = "done" /\ ~ok

\* C1: when Next returns found = true, the returned instant read in the
\* timezone of the expression satisfies the expression: each of its year,
\* month, day, hour, minute and second is denoted by the components of its
\* field, and its weekday is in the weekday set.
C1_ResultSatisfies == Found => Satisfies(exp, In(n, exp.timezone))

\* C2: when Next returns found = true with the instant n, no instant strictly
\* between d and n satisfies the expression.
C2_NothingSkipped == Found => ~SatisfiedBetween(exp, d, n)

\* C3: an instant returned with found = true is strictly after d.
C3_StrictlyAfter == Found => Before(d, n)

\* C4: Next returns found = false only when no instant strictly after d, with
\* a year of at most MaxYears, satisfies the expression.
C4_NotFoundMeansNone == NotFound => ~SatisfiedBetween(exp, d, EndOfYears(exp.timezone))

\* C5: the day of a result is bounded by daysInMonth(year, month): the loop
\* never leaves with a day that the working month does not have.
C5_DayInMonth == Found => day <= daysInMonth(year, month)

AllYearsBefore(y) == \A v \in Range(Values(exp.years, MaxYears)) : v < y

\* C7: years never wrap.  When every year value is smaller than the working
\* year with which a pass starts, the pass returns found = false; and a found
\* result never has a year earlier than the year of d in the timezone of the
\* expression.
C7_YearsNeverWrap ==
    [][/\ (pc = "years" /\ AllYearsBefore(year)
              => pc' = "yearsTest" /\ (~ok' \/ diff' < 0))
       /\ (pc = "yearsTest" /\ (~ok \/ diff < 0) => pc' = "done" /\ ~ok')
       /\ (pc' = "done" /\ ok'
              => In(n', exp.timezone).year >= In(d, exp.timezone).year)]_vars

\* Next returned found = false on a year that wrapped: the year it holds is a
\* value of the expression smaller than the year of d.
C7_WrappedYear ==
    /\ NotFound
    /\ Matches(exp.years, year)
    /\ year < In(d, exp.timezone).year

----------------------------------------------------------------------------
(* The claims about components.Values and components.Next.                 *)

\* C8: Values(max) is strictly ascending (so without duplicates) and every
\* element is less than or equal to max.
C8_ValuesAscendingWithinMax ==
    cpc = "values" =>
        /\ \A i \in 1..(Len(values) - 1) : values[i] < values[i + 1]
        /\ \A i \in 1..Len(values) : values[i] <= max

\* The least element of a non-empty set of integers.
Smallest(s) == CHOOSE v \in s : \A u \in s : v <= u

\* The elements of Values(max) that are not below cur.
AtLeast(list, cur, mx) == {v \in Range(Values(list, mx)) : v >= cur}

\* C9: Next(current, max) gives found = false exactly when Values(max) is
\* empty; otherwise its value is the smallest element of Values(max) that is
\* >= current, or the smallest element of all when there is none, and
\* diff = value - current is negative exactly in that second case.
C9_NextAgreesWithReference ==
    cpc = "next" =>
        /\ res.ok <=> Values(cs, max) # <<>>
        /\ res.ok =>
            /\ res.next = IF AtLeast(cs, current, max) # {}
                          THEN Smallest(AtLeast(cs, current, max))
                          ELSE Smallest(Range(Values(cs, max)))
            /\ res.diff = res.next - current
            /\ res.diff < 0 <=> AtLeast(cs, current, max) = {}

\* Next wrapped: it found a value, and that value is below current.
C9_Wrapped == cpc = "next" /\ res.ok /\ res.diff < 0 /\ Len(Values(cs, max)) > 1

\* The values the claim gives a component c with Repeat > 0: its value, or its
\* range, shifted by every multiple of Repeat that leaves From at most max, and
\* nothing above max.
RepeatValues(c, mx) ==
    {v \in 0..mx :
        \E k \in 0..mx :
            /\ c.From + k * c.Repeat <= mx
            /\ IF c.To = 0 THEN v = c.From + k * c.Repeat
               ELSE c.From + k * c.Repeat <= v /\ v <= c.To + k * c.Repeat}

\* The values the claim gives a component c with Repeat = 0: one expansion,
\* its value, or its range up to max.
SingleValues(c, mx) ==
    IF c.To = 0 THEN {c.From} ELSE {v \in c.From..c.To : v <= mx}

\* C10: the values of a list of one component are those of its repeat
\* expansion: with Repeat > 0 the value or range at From, From + Repeat, ...
\* as long as the shifted From is at most max, and no value above max; with
\* Repeat = 0 a single expansion.
C10_RepeatExpansion ==
    cpc = "values" /\ Len(cs) = 1 =>
        Range(values) = IF cs[1].Repeat > 0 THEN RepeatValues(cs[1], max)
                        ELSE SingleValues(cs[1], max)

----------------------------------------------------------------------------
(* The claims about Schedule.                                              *)

\* C11: Schedule.Next returns found = true exactly when the Next of at least
\* one member is found, and then the earliest of the members' found instants;
\* an empty schedule and one whose members are all not found give found = false.
C11_ScheduleNextEarliest ==
    spc = "done" =>
        /\ Len(returned) = Len(sched)
        /\ sok <=> \E i \in DOMAIN returned : returned[i].ok
        /\ sok =>
            /\ \E i \in DOMAIN returned : returned[i].ok /\ returned[i].n = sn
            /\ \A i \in DOMAIN returned : returned[i].ok => ~Before(returned[i].n, sn)

\* Schedule.Next returned the instant of a later member, which is earlier than
\* the instant of a member before it.
C11_LaterMemberEarlier ==
    /\ spc = "done" /\ sok
    /\ \E i, j \in DOMAIN returned :
           /\ i < j /\ returned[i].ok /\ returned[j].ok
           /\ Before(returned[j].n, returned[i].n)
           /\ sn = returned[j].n

----------------------------------------------------------------------------
(* The claims about the parsers of lists.                                  *)

\* What the parser that was called makes of one element of the list.
ParsedElement(el) ==
    IF tpc = "components"
    THEN IF StringsContains(el, <<".", ".">>) THEN parseRange(el) ELSE parseValue(el)
    ELSE IF StringsContains(el, <<".", ".">>) THEN parseWeekdayRange(el)
    ELSE parseWeekdayValue(el)

\* The element reads as a range whose bounds are both understood by the
\* parser that was called and whose lower bound is not below the upper one.
Reversed(el) ==
    \E bounds \in {Split(IF tpc = "components" THEN Cut(el).value ELSE el, <<".", ".">>)} :
        /\ Len(bounds) = 2
        /\ IF tpc = "components"
           THEN /\ ParseInt(bounds[1]).ok /\ ParseInt(bounds[2]).ok
                /\ ParseInt(bounds[1]).v >= 0
                /\ ParseInt(bounds[1]).v >= ParseInt(bounds[2]).v
           ELSE /\ WeekdayLookup(bounds[1]).ok /\ WeekdayLookup(bounds[2]).ok
                /\ WeekdayLookup(bounds[1]).v >= WeekdayLookup(bounds[2]).v

Offending == {k \in DOMAIN given : given[k] = <<>> \/ ParsedElement(given[k]).err # nil}

----------------------------------------------------------------------------
(* The claims about Parse and Expression.MarshalText.                      *)

\* C12: the rendering of an expression that Parse returned is accepted by
\* Parse, and what Parse makes of it renders as the same text.
C12_RenderIdempotent ==
    /\ tpc \in {"reparsed", "done"} => err2 = nil
    /\ tpc = "done" => text2 = text

\* The round trip of an expression with a "*" field, a repeat and the value 0.
C12_StarRepeatZero ==
    /\ tpc = "done"
    /\ out.hours = allHours /\ out.minutes[1].Repeat # 0 /\ out.seconds = <<Component(0, 0, 0)>>
    /\ text # raw /\ text2 = text

\* How many times the token occurs in the chunk.
Count(chunk, token) == Cardinality({i \in DOMAIN chunk : chunk[i] = token})

\* C13: Parse gives an omitted weekday chunk every weekday, an omitted date
\* every year, month and day, an omitted year every year, an omitted time the
\* single value 0 for hours, minutes and seconds, omitted seconds the single
\* value 0, a "*" part of the time the full range of its field, and an
\* omitted timezone the local one.
C13_ParseDefaults ==
    tpc = "parsed" /\ err = nil =>
        /\ (\A k \in DOMAIN given : given[k] \notin WeekdayChunks)
               => out.weekdays = <<WeekdayComponent(1, 7)>>
        /\ (\A k \in DOMAIN given : given[k] \notin DateChunks)
               => /\ out.years = <<Component(1970, 2199, 0)>>
                  /\ out.months = <<Component(1, 12, 0)>>
                  /\ out.days = <<Component(1, 31, 0)>>
        /\ \A k \in DOMAIN given :
               given[k] \in DateChunks /\ Count(given[k], "-") = 1
                   => out.years = <<Component(1970, 2199, 0)>>
        /\ (\A k \in DOMAIN given : given[k] \notin TimeChunks)
               => /\ out.hours = <<Component(0, 0, 0)>>
                  /\ out.minutes = <<Component(0, 0, 0)>>
                  /\ out.seconds = <<Component(0, 0, 0)>>
        /\ \A k \in DOMAIN given :
               given[k] \in TimeChunks =>
                   \E parts \in {Split(given[k], <<":">>)} :
                       /\ Len(parts) = 2 => out.seconds = <<Component(0, 0, 0)>>
                       /\ parts[1] = <<"*">> => out.hours = <<Component(0, 23, 0)>>
                       /\ parts[2] = <<"*">> => out.minutes = <<Component(0, 59, 0)>>
                       /\ Len(parts) = 3 /\ parts[3] = <<"*">>
                              => out.seconds = <<Component(0, 59, 0)>>
        /\ (\A k \in DOMAIN given : given[k] \notin TimezoneChunks) => out.timezone = Local

\* Parse accepted a text that is a date of two parts and nothing else.
C13_OnlyMonthAndDay ==
    /\ tpc = "parsed" /\ err = nil
    /\ Len(given) = 1 /\ given[1] \in DateChunks /\ Count(given[1], "-") = 1
    /\ out.hours = <<Component(0, 0, 0)>> /\ out.timezone = Local

\* The place of a chunk in the format: weekdays, date, time, timezone.
Kind(chunk) ==
    CASE chunk \in WeekdayChunks -> 1
      [] chunk \in DateChunks -> 2
      [] chunk \in TimeChunks -> 3
      [] chunk \in TimezoneChunks -> 4

\* C14: Parse returns an error for a text of no chunk, for a text of more
\* than 4 chunks, for a text that is a timezone name only, and for a text
\* whose chunks are not in the order weekdays, date, time, timezone with each
\* at most once, a chunk after the timezone included.
C14_MisplacedChunksRejected ==
    tpc = "parsed" =>
        /\ Len(given) = 0 \/ Len(given) > 4 => err # nil
        /\ Len(given) = 1 /\ given[1] \in TimezoneChunks => err # nil
        /\ (\E i, j \in DOMAIN given : i < j /\ Kind(given[i]) >= Kind(given[j])) => err # nil

\* Parse named the chunk that follows a timezone it had accepted.
C14_ChunkAfterTimezone ==
    /\ tpc = "parsed"
    /\ Len(given) = 3 /\ given[2] \in TimezoneChunks
    /\ err.msg = "invalid chunk" /\ err.chunk = given[3]

\* Every From, and every To that is set, of the list is between lo and hi.
Within(list, lo, hi) ==
    \A i \in DOMAIN list :
        /\ list[i].From \in lo..hi
        /\ list[i].To # 0 => list[i].To \in lo..hi

\* C17: the fields of an expression Parse returns without an error hold
\* years in 1970..2199, months in 1..12, days in 1..31, hours in 0..23,
\* minutes and seconds in 0..59.
C17_FieldBounds ==
    tpc = "parsed" /\ err = nil =>
        /\ Within(out.years, 1970, 2199)
        /\ Within(out.months, 1, 12)
        /\ Within(out.days, 1, 31)
        /\ Within(out.hours, 0, 23)
        /\ Within(out.minutes, 0, 59)
        /\ Within(out.seconds, 0, 59)

\* A list of single values in ascending order without duplicates; any other
\* list as it is.
Normalized(list) ==
    IF \A i \in DOMAIN list : list[i].To = 0 /\ list[i].Repeat = 0
    THEN Singles(SortInts({list[i].From : i \in DOMAIN list}))
    ELSE list

\* C18: the rendering of a parsed expression lists the single values of each
\* field in ascending order without duplicates.
C18_RenderedNormalized ==
    tpc = "rendered" =>
        text = MarshalText([out EXCEPT !.years = Normalized(@), !.months = Normalized(@),
                                       !.days = Normalized(@), !.hours = Normalized(@),
                                       !.minutes = Normalized(@), !.seconds = Normalized(@)])

\* C20: when Expression.UnmarshalText returns an error the receiver holds
\* the value it held before the call.
C20_NoPartialResult ==
    tpc = "unmarshalled" /\ err # nil => out = before

----------------------------------------------------------------------------
(* The claims about the texts of schedules.                                *)

\* C19: Schedule.MarshalText gives the texts of the members with a newline
\* between two of them, and ParseSchedule and Schedule.UnmarshalText make of
\* that text the schedule that was rendered: the same members in the same order.
C19_ScheduleRoundTrip ==
    /\ tpc = "rendered" => text = Join([i \in DOMAIN out |-> MarshalText(out[i])], <<"\n">>)
    /\ tpc \in {"reparsed", "unmarshalled"} => err2 = nil /\ out2 = out

----------------------------------------------------------------------------
(* C21: the working values grow from one pass of the loop to the next.     *)

\* a comes before b in lexicographic order.
RECURSIVE LexLessFrom(_, _, _)
LexLessFrom(a, b, i) ==
    IF i > Len(a) THEN FALSE
    ELSE IF a[i] # b[i] THEN a[i] < b[i]
    ELSE LexLessFrom(a, b, i + 1)

LexLess(a, b) == LexLessFrom(a, b, 1)

\* C21: whenever a pass of the loop of Expression.Next has been restarted by a
\* `continue`, the working values (year, month, day, hour, minute, second) at
\* the top of the new pass are strictly greater, in lexicographic order, than
\* they were at the top of the pass that was restarted.
C21_RestartAdvances == restarts > 0 => LexLess(pass[1], pass[2])

\* A pass restarted by a carry that wrapped the month down to a smaller value
\* while the year went up.
C21_MonthWrapped == restarts > 0 /\ pass[2][1] > pass[1][1] /\ pass[2][2] < pass[1][2]

----------------------------------------------------------------------------
(* C22: Expression.Next is monotone in its input.                          *)

\* Two calls of Next on one expression have returned: the first with
\* prior[1].d, the second with d, and prior[1].d <= d.
Twice == pc = "done" /\ prior # <<>>

\* C22: for an expression and instants d <= d', if Next(d') is found then
\* Next(d) is found and Next(d) <= Next(d'); and if d < d' < Next(d) then
\* Next(d') is found and equals Next(d).
C22_Monotone ==
    Twice =>
        /\ ok => prior[1].ok /\ ~Before(n, prior[1].n)
        /\ (prior[1].ok /\ Before(prior[1].d, d) /\ Before(d, prior[1].n))
               => ok /\ n = prior[1].n

----------------------------------------------------------------------------
(* C23: no result after MaxYears.                                          *)

\* C23: an instant returned by Expression.Next with found=true has, in the
\* timezone of the expression, a year no greater than MaxYears, and the loop
\* does not leave with found=true and a working year greater than MaxYears.
C23_YearWithinMax ==
    Found => In(n, exp.timezone).year <= MaxYears /\ year <= MaxYears

====
